---- MODULE Spec2Model ----
(***************************************************************************)
(* Model of the calculator engine of src/script.js: the expression buffer, *)
(* the last answer, the angle mode and the history, the handlers that      *)
(* change them, and evaluateExpression (sanitizing, then evaluation of the *)
(* text as the body of a strict-mode function whose parameters are the     *)
(* nine names sin, cos, tan, log, ln, sqrt, PI, E, Ans).                   *)
(*                                                                         *)
(* Text is a sequence of one-character strings.  Numbers inside an         *)
(* evaluation are exact dyadic rationals n/d of bounded size: every such   *)
(* number is a double and + - * / on them is exact in double arithmetic.   *)
(* Any value outside that range is the value Unk; an evaluation that       *)
(* depends on it has the outcome "oom" (outside the model), and the commit *)
(* of such a text is not explored.                                         *)
(***************************************************************************)
EXTENDS Integers, Sequences, FiniteSets, TLC

\* ------------------------------------------------------------------ bounds
MaxNum == 10000

\* -------------------------------------------------------------- characters
Digits == {"0", "1", "2", "3", "4", "5", "6", "7", "8", "9"}

LowerLetters ==
    {"a", "b", "c", "d", "e", "f", "g", "h", "i", "j", "k", "l", "m",
     "n", "o", "p", "q", "r", "s", "t", "u", "v", "w", "x", "y", "z"}

UpperLetters ==
    {"A", "B", "C", "D", "E", "F", "G", "H", "I", "J", "K", "L", "M",
     "N", "O", "P", "Q", "R", "S", "T", "U", "V", "W", "X", "Y", "Z"}

Letters == LowerLetters \cup UpperLetters

Whitespace == {" ", "\t", "\n"}

\* the characters /[^0-9+\-*/^().%A-Za-z]/ keeps
AllowedChars ==
    Digits \cup {"+", "-", "*", "/", "^", "(", ")", ".", "%"} \cup Letters

DigitVal(c) ==
    CASE c = "0" -> 0 [] c = "1" -> 1 [] c = "2" -> 2 [] c = "3" -> 3
      [] c = "4" -> 4 [] c = "5" -> 5 [] c = "6" -> 6 [] c = "7" -> 7
      [] c = "8" -> 8 [] c = "9" -> 9

DigitChar(k) ==
    CASE k = 0 -> "0" [] k = 1 -> "1" [] k = 2 -> "2" [] k = 3 -> "3"
      [] k = 4 -> "4" [] k = 5 -> "5" [] k = 6 -> "6" [] k = 7 -> "7"
      [] k = 8 -> "8" [] k = 9 -> "9"

\* index of the first position >= i of s that holds no digit
RECURSIVE DigitRunEnd(_, _)
DigitRunEnd(s, i) ==
    IF i <= Len(s) /\ s[i] \in Digits THEN DigitRunEnd(s, i + 1) ELSE i

\* ---------------------------------------------------------------- sanitizer
\* rawExpr.replace(/\s+/g, "")
RemoveSpaces(raw) == SelectSeq(raw, LAMBDA c : c \notin Whitespace)

\* expr.replace(/[^0-9+\-*/^().%A-Za-z]/g, "")
RemoveDisallowed(s) == SelectSeq(s, LAMBDA c : c \in AllowedChars)

\* expr.replace(/\^/g, "**")
RECURSIVE RewriteCaret(_)
RewriteCaret(s) ==
    IF s = <<>> THEN <<>>
    ELSE (IF Head(s) = "^" THEN <<"*", "*">> ELSE <<Head(s)>>)
         \o RewriteCaret(Tail(s))

\* /(\d+(\.\d+)?)%/ tried at position i: the index of the matched "%", or 0.
\* \d+ and \.\d+ are greedy and a shorter digit run is followed by a digit,
\* never by "." or "%", so backtracking finds no other match at i.
PercentMatchEnd(s, i) ==
    IF i > Len(s) \/ s[i] \notin Digits THEN 0
    ELSE LET j == DigitRunEnd(s, i) IN
         IF j + 1 <= Len(s) /\ s[j] = "." /\ s[j + 1] \in Digits
         THEN LET k == DigitRunEnd(s, j + 1) IN
              IF k <= Len(s) /\ s[k] = "%" THEN k ELSE 0
         ELSE IF j <= Len(s) /\ s[j] = "%" THEN j ELSE 0

\* expr.replace(/(\d+(\.\d+)?)%/g, "($1/100)") from position i on
RECURSIVE RewritePercentFrom(_, _)
RewritePercentFrom(s, i) ==
    IF i > Len(s) THEN <<>>
    ELSE LET m == PercentMatchEnd(s, i) IN
         IF m > 0
         THEN <<"(">> \o SubSeq(s, i, m - 1) \o <<"/", "1", "0", "0", ")">>
              \o RewritePercentFrom(s, m + 1)
         ELSE <<s[i]>> \o RewritePercentFrom(s, i + 1)

RewritePercent(s) == RewritePercentFrom(s, 1)

\* Sanitize with the percent rewrite done before the disallowed characters
\* are removed
SanitizePercentFirst(raw) ==
    LET a == RemoveSpaces(raw) IN
    IF a = <<>> THEN <<>>
    ELSE LET b == RemoveDisallowed(RewritePercent(a)) IN
         IF b = <<>> THEN <<>> ELSE RewriteCaret(b)

\* the text handed to new Function, <<>> when evaluateExpression returns ""
Sanitize(raw) ==
    LET a == RemoveSpaces(raw) IN
    IF a = <<>> THEN <<>>
    ELSE LET b == RemoveDisallowed(a) IN
         IF b = <<>> THEN <<>> ELSE RewritePercent(RewriteCaret(b))

\* ------------------------------------------------------------------- values
\* A value of the evaluated text.  t is one of
\*   "num"   the double n/d (d a power of two); nz: the zero is -0;
\*           ap: the double is within rounding error of n/d, not known equal
\*   "irr"   the constant name (Math.PI or Math.E)
\*   "nan" "inf" "ninf" "undef"   NaN, +Infinity, -Infinity, undefined
\*   "fn" "obj"   the function / the object name;  "str"  some string
\*   "unk"   a value outside the model;  "throw"  an exception was thrown
V(t) == [t |-> t, n |-> 0, d |-> 1, ap |-> FALSE, nz |-> FALSE, name |-> <<>>]

Unk == V("unk")
Throw == V("throw")
NaNV == V("nan")
Undef == V("undef")
StrV == V("str")
InfV(neg) == IF neg THEN V("ninf") ELSE V("inf")
Fn(name) == [V("fn") EXCEPT !.name = name]
Obj(name) == [V("obj") EXCEPT !.name = name]
Irr(name) == [V("irr") EXCEPT !.name = name]
Zero(neg) == [V("num") EXCEPT !.nz = neg]

Abs(x) == IF x < 0 THEN -x ELSE x

RECURSIVE GCD(_, _)
GCD(a, b) == IF b = 0 THEN a ELSE GCD(b, a % b)

RECURSIVE IsPow2(_)
IsPow2(d) == d = 1 \/ (d > 1 /\ d % 2 = 0 /\ IsPow2(d \div 2))

\* the double n/d (d > 0, n # 0) when it is in the modelled range, else Unk
MkNum(n, d) ==
    LET g == GCD(Abs(n), d)
        m == Abs(n) \div g
        e == d \div g
    IN  IF m > MaxNum \/ e > MaxNum \/ ~IsPow2(e) THEN Unk
        ELSE [V("num") EXCEPT !.n = IF n < 0 THEN -m ELSE m, !.d = e]

IntV(n) == IF n = 0 THEN Zero(FALSE) ELSE MkNum(n, 1)

IsZero(v) == v.t = "num" /\ v.n = 0
\* sign bit of a num, inf or ninf
Negative(v) ==
    \/ v.t = "ninf"
    \/ v.t = "num" /\ (v.n < 0 \/ (v.n = 0 /\ v.nz))
IsInf(v) == v.t \in {"inf", "ninf"}

\* ToNumber
ToNumber(v) ==
    CASE v.t \in {"num", "irr", "nan", "inf", "ninf", "unk", "throw"} -> v
      [] v.t \in {"undef", "fn", "obj"} -> NaNV
      [] v.t = "str" -> Unk

\* double arithmetic on num (exact), nan, inf, ninf
NumNeg(a) ==
    CASE a.t = "nan" -> NaNV
      [] a.t = "inf" -> InfV(TRUE)
      [] a.t = "ninf" -> InfV(FALSE)
      [] a.t = "num" ->
            IF a.n = 0 THEN [a EXCEPT !.nz = ~a.nz] ELSE [a EXCEPT !.n = -a.n]

NumAdd(a, b) ==
    IF a.t = "nan" \/ b.t = "nan" THEN NaNV
    ELSE IF IsInf(a) /\ IsInf(b) THEN (IF a.t = b.t THEN a ELSE NaNV)
    ELSE IF IsInf(a) THEN a
    ELSE IF IsInf(b) THEN b
    ELSE LET n == a.n * b.d + b.n * a.d IN
         IF n = 0 THEN Zero(IsZero(a) /\ IsZero(b) /\ a.nz /\ b.nz)
         ELSE MkNum(n, a.d * b.d)

NumSub(a, b) == NumAdd(a, NumNeg(b))

NumMul(a, b) ==
    LET neg == Negative(a) # Negative(b) IN
    IF a.t = "nan" \/ b.t = "nan" THEN NaNV
    ELSE IF IsInf(a) \/ IsInf(b)
         THEN (IF IsZero(a) \/ IsZero(b) THEN NaNV ELSE InfV(neg))
    ELSE IF a.n = 0 \/ b.n = 0 THEN Zero(neg)
    ELSE MkNum(a.n * b.n, a.d * b.d)

NumDiv(a, b) ==
    LET neg == Negative(a) # Negative(b) IN
    IF a.t = "nan" \/ b.t = "nan" THEN NaNV
    ELSE IF IsInf(a) THEN (IF IsInf(b) THEN NaNV ELSE InfV(neg))
    ELSE IF IsInf(b) THEN Zero(neg)
    ELSE IF b.n = 0 THEN (IF a.n = 0 THEN NaNV ELSE InfV(neg))
    ELSE IF a.n = 0 THEN Zero(neg)
    ELSE MkNum((IF neg THEN -1 ELSE 1) * Abs(a.n) * b.d, a.d * Abs(b.n))

\* the remainder a % b has the sign of a
NumMod(a, b) ==
    IF a.t = "nan" \/ b.t = "nan" \/ IsInf(a) \/ IsZero(b) THEN NaNV
    ELSE IF IsInf(b) \/ IsZero(a) THEN a
    ELSE LET r == (Abs(a.n) * b.d) % (Abs(b.n) * a.d) IN
         IF r = 0 THEN Zero(Negative(a))
         ELSE MkNum((IF a.n < 0 THEN -1 ELSE 1) * r, a.d * b.d)

IsInteger(v) == v.t = "num" /\ v.d = 1
IsOddInteger(v) == IsInteger(v) /\ v.n % 2 # 0

\* acc * b^k by repeated multiplication, Unk as soon as the range is left
RECURSIVE PowAcc(_, _, _)
PowAcc(acc, b, k) ==
    IF k = 0 \/ acc.t = "unk" THEN acc ELSE PowAcc(NumMul(acc, b), b, k - 1)

\* Number::exponentiate(base, exponent)
NumPow(a, b) ==
    IF b.t = "nan" THEN NaNV
    ELSE IF IsZero(b) THEN IntV(1)
    ELSE IF a.t = "nan" THEN NaNV
    ELSE IF a.t = "inf" THEN (IF Negative(b) THEN Zero(FALSE) ELSE InfV(FALSE))
    ELSE IF a.t = "ninf"
         THEN (IF Negative(b) THEN Zero(IsOddInteger(b))
               ELSE InfV(IsOddInteger(b)))
    ELSE IF IsZero(a)
         THEN (IF Negative(b) THEN InfV(a.nz /\ IsOddInteger(b))
               ELSE Zero(a.nz /\ IsOddInteger(b)))
    ELSE IF IsInf(b)
         THEN (IF Abs(a.n) = a.d THEN NaNV
               ELSE IF (Abs(a.n) > a.d) = (b.t = "inf") THEN InfV(FALSE)
               ELSE Zero(FALSE))
    ELSE IF ~IsInteger(b) THEN (IF a.n < 0 THEN NaNV
                                ELSE IF a.n = a.d THEN IntV(1) ELSE Unk)
    ELSE IF Abs(a.n) = a.d
         THEN (IF a.n < 0 /\ IsOddInteger(b) THEN IntV(-1) ELSE IntV(1))
    ELSE LET p == PowAcc(IntV(1), a, Abs(b.n)) IN
         IF p.t = "unk" THEN Unk
         ELSE IF b.n < 0 THEN NumDiv(IntV(1), p) ELSE p

\* a number whose double is not known exactly
Inexact(v) == v.t = "irr" \/ (v.t = "num" /\ v.ap)

\* the binary operators of the evaluated text
BinOp(op, a, b) ==
    IF a.t = "throw" \/ b.t = "throw" THEN Throw
    ELSE IF a.t = "unk" \/ b.t = "unk" THEN Unk
    ELSE IF op = "+" /\ (a.t \in {"fn", "obj", "str"} \/ b.t \in {"fn", "obj", "str"})
         THEN StrV
    ELSE LET x == ToNumber(a)
             y == ToNumber(b)
         IN  IF x.t = "unk" \/ y.t = "unk" THEN Unk
             ELSE IF op = "**" /\ IsZero(y) /\ ~y.ap THEN IntV(1)
             ELSE IF op = "**" /\ y.t = "nan" THEN NaNV
             ELSE IF op # "**" /\ (x.t = "nan" \/ y.t = "nan") THEN NaNV
             ELSE IF Inexact(x) \/ Inexact(y) THEN Unk
             ELSE CASE op = "+" -> NumAdd(x, y)
                    [] op = "-" -> NumSub(x, y)
                    [] op = "*" -> NumMul(x, y)
                    [] op = "/" -> NumDiv(x, y)
                    [] op = "%" -> NumMod(x, y)
                    [] op = "**" -> NumPow(x, y)

\* unary - and +
UnaryOp(op, a) ==
    LET x == ToNumber(a) IN
    IF x.t \in {"throw", "unk"} THEN x
    ELSE IF op = "+" THEN x
    ELSE IF x.t = "irr" THEN Unk
    ELSE NumNeg(x)

\* --------------------------------------------------------------- tokenizer
\* the value of a run of at most 9 digits, -1 for a longer run
RECURSIVE DigitsToNatAcc(_, _)
DigitsToNatAcc(ds, acc) ==
    IF ds = <<>> THEN acc
    ELSE DigitsToNatAcc(Tail(ds), 10 * acc + DigitVal(Head(ds)))

DigitsToNat(ds) == IF Len(ds) > 9 THEN -1 ELSE DigitsToNatAcc(ds, 0)

RECURSIVE Pow10(_)
Pow10(k) == IF k = 0 THEN 1 ELSE 10 * Pow10(k - 1)

\* v * 10^e (down = FALSE) or v / 10^e (down = TRUE)
RECURSIVE ScaleTen(_, _, _)
ScaleTen(v, e, down) ==
    IF e = 0 \/ v.t = "unk" THEN v
    ELSE ScaleTen(IF down THEN NumDiv(v, IntV(10)) ELSE NumMul(v, IntV(10)),
                  e - 1, down)

\* the double of the decimal ip.frac, Unk outside the modelled range
DecimalValue(ip, frac) ==
    LET f == DigitsToNat(frac) IN
    IF ip < 0 \/ ip > MaxNum \/ f < 0 THEN Unk
    ELSE IF f = 0 THEN IntV(ip)
    ELSE LET p == Pow10(Len(frac))
             g == GCD(f, p)
         IN  IF p \div g > MaxNum THEN Unk
             ELSE MkNum(ip * (p \div g) + (f \div g), p \div g)

\* the value of the literal  intDigits [. frac] [e [-] expDigits]
LiteralValue(intDigits, frac, expDigits, expNeg) ==
    LET m == DecimalValue(DigitsToNat(intDigits), frac)
        e == DigitsToNat(expDigits)
    IN  IF m.t = "unk" \/ IsZero(m) THEN m
        ELSE IF e < 0 \/ e > 9 THEN Unk
        ELSE ScaleTen(m, e, expNeg)

\* A token: a numeric literal ("num", v), an identifier name ("id", name), a
\* punctuator ("p", p), a lexical error ("err") or text outside the model
\* ("unk": a regular expression, BigInt or radix literal)
Tok(t, p, name, v) == [t |-> t, p |-> p, name |-> name, v |-> v]
Punct(p) == Tok("p", p, <<>>, Undef)
ErrTok == Tok("err", "", <<>>, Undef)
UnkTok == Tok("unk", "", <<>>, Undef)

\* the numeric literal at position i of src, and the position after it
ScanNumber(src, i) ==
    LET n == Len(src)
        intEnd == IF src[i] \in Digits THEN DigitRunEnd(src, i) ELSE i
        intDigits == SubSeq(src, i, intEnd - 1)
        hasDot == intEnd <= n /\ src[intEnd] = "."
        fracEnd == IF hasDot THEN DigitRunEnd(src, intEnd + 1) ELSE intEnd
        frac == IF hasDot THEN SubSeq(src, intEnd + 1, fracEnd - 1) ELSE <<>>
        hasExp == fracEnd <= n /\ src[fracEnd] \in {"e", "E"}
        hasSign == hasExp /\ fracEnd + 1 <= n /\ src[fracEnd + 1] \in {"+", "-"}
        expStart == IF hasSign THEN fracEnd + 2 ELSE fracEnd + 1
        expEnd == IF hasExp THEN DigitRunEnd(src, expStart) ELSE fracEnd
        expDigits == IF hasExp THEN SubSeq(src, expStart, expEnd - 1) ELSE <<>>
        expNeg == hasSign /\ src[fracEnd + 1] = "-"
        \* strict mode: no legacy octal or leading-zero decimal literal
        legacy == Len(intDigits) > 1 /\ intDigits[1] = "0"
        follow == IF expEnd <= n THEN src[expEnd] ELSE ""
    IN  [next |-> expEnd,
         tok |->
            IF legacy \/ (hasExp /\ expDigits = <<>>) THEN ErrTok
            ELSE IF follow \in {"n", "x", "X", "o", "O", "b", "B"} THEN UnkTok
            ELSE IF follow \in Letters THEN ErrTok
            ELSE Tok("num", "", <<>>,
                     LiteralValue(intDigits, frac, expDigits, expNeg))]

RECURSIVE IdentEnd(_, _)
IdentEnd(src, i) ==
    IF i <= Len(src) /\ src[i] \in Letters \cup Digits
    THEN IdentEnd(src, i + 1) ELSE i

\* the position after the first "*/" at or after j, 0 if there is none
RECURSIVE CommentEnd(_, _)
CommentEnd(src, j) ==
    IF j + 1 > Len(src) THEN 0
    ELSE IF src[j] = "*" /\ src[j + 1] = "/" THEN j + 2
    ELSE CommentEnd(src, j + 1)

\* The tokens of src from position i on.  before tells what the previous token
\* was: "operand" (a literal, a name or ")": a "/" divides), "update" (++ or
\* --) or "other" (a "/" starts a regular expression).  An "err" or "unk"
\* token ends the sequence.
RECURSIVE Tokens(_, _, _)
Tokens(src, i, before) ==
    IF i > Len(src) THEN <<>>
    ELSE LET c == src[i]
             nx == IF i < Len(src) THEN src[i + 1] ELSE ""
         IN
         IF c \in Digits \/ (c = "." /\ nx \in Digits)
         THEN LET r == ScanNumber(src, i) IN
              IF r.tok.t = "num" THEN <<r.tok>> \o Tokens(src, r.next, "operand")
              ELSE <<r.tok>>
         ELSE IF c \in Letters
         THEN LET e == IdentEnd(src, i) IN
              <<Tok("id", "", SubSeq(src, i, e - 1), Undef)>>
              \o Tokens(src, e, "operand")
         ELSE IF c \in {"+", "-"} /\ nx = c
         THEN <<Punct(IF c = "+" THEN "++" ELSE "--")>> \o Tokens(src, i + 2, "update")
         ELSE IF c = "*" /\ nx = "*"
         THEN <<Punct("**")>> \o Tokens(src, i + 2, "other")
         ELSE IF c = "/" /\ nx = "/"
         THEN <<>>                      \* a comment to the end of the line
         ELSE IF c = "/" /\ nx = "*"
         THEN LET e == CommentEnd(src, i + 2) IN
              IF e = 0 THEN <<ErrTok>> ELSE Tokens(src, e, before)
         ELSE IF c = "/" /\ before = "update" THEN <<UnkTok>>
         ELSE IF c = "/" /\ before = "other"
         THEN (IF \E k \in (i + 1)..Len(src) : src[k] = "/"
               THEN <<UnkTok>> ELSE <<ErrTok>>)
         ELSE IF c \in {"+", "-", "*", "/", "(", ")", ".", "%"}
         THEN <<Punct(c)>> \o Tokens(src, i + 1, IF c = ")" THEN "operand" ELSE "other")
         ELSE <<ErrTok>>

\* -------------------------------------------------------------- identifiers
\* the parameters of the function evaluateExpression builds
ClosedTable ==
    {<<"s", "i", "n">>, <<"c", "o", "s">>, <<"t", "a", "n">>,
     <<"l", "o", "g">>, <<"l", "n">>, <<"s", "q", "r", "t">>, <<"P", "I">>,
     <<"E">>, <<"A", "n", "s">>}

\* names the host environment binds, as far as the model follows them
HostGlobals ==
    {<<"M", "a", "t", "h">>, <<"N", "u", "m", "b", "e", "r">>,
     <<"N", "a", "N">>, <<"I", "n", "f", "i", "n", "i", "t", "y">>,
     <<"u", "n", "d", "e", "f", "i", "n", "e", "d">>}

\* words of the language and further names of the host environment: a text
\* that uses one is outside the model
UnmodelledNames ==
    {<<"t", "h", "i", "s">>, <<"n", "u", "l", "l">>, <<"t", "r", "u", "e">>,
     <<"f", "a", "l", "s", "e">>, <<"n", "e", "w">>, <<"v", "o", "i", "d">>,
     <<"t", "y", "p", "e", "o", "f">>, <<"d", "e", "l", "e", "t", "e">>,
     <<"i", "n">>, <<"i", "n", "s", "t", "a", "n", "c", "e", "o", "f">>,
     <<"f", "u", "n", "c", "t", "i", "o", "n">>, <<"c", "l", "a", "s", "s">>,
     <<"l", "e", "t">>, <<"v", "a", "r">>, <<"c", "o", "n", "s", "t">>,
     <<"d", "o">>, <<"i", "f">>, <<"e", "l", "s", "e">>, <<"f", "o", "r">>,
     <<"w", "h", "i", "l", "e">>, <<"r", "e", "t", "u", "r", "n">>,
     <<"y", "i", "e", "l", "d">>, <<"a", "w", "a", "i", "t">>,
     <<"a", "s", "y", "n", "c">>,
     <<"a", "r", "g", "u", "m", "e", "n", "t", "s">>, <<"e", "v", "a", "l">>,
     <<"s", "u", "p", "e", "r">>, <<"i", "m", "p", "o", "r", "t">>,
     <<"e", "x", "p", "o", "r", "t">>, <<"s", "w", "i", "t", "c", "h">>,
     <<"c", "a", "s", "e">>, <<"b", "r", "e", "a", "k">>,
     <<"c", "o", "n", "t", "i", "n", "u", "e">>,
     <<"d", "e", "f", "a", "u", "l", "t">>, <<"t", "h", "r", "o", "w">>,
     <<"t", "r", "y">>, <<"c", "a", "t", "c", "h">>,
     <<"f", "i", "n", "a", "l", "l", "y">>, <<"w", "i", "t", "h">>,
     <<"d", "e", "b", "u", "g", "g", "e", "r">>, <<"e", "n", "u", "m">>,
     <<"s", "t", "a", "t", "i", "c">>,
     <<"i", "m", "p", "l", "e", "m", "e", "n", "t", "s">>,
     <<"i", "n", "t", "e", "r", "f", "a", "c", "e">>,
     <<"p", "a", "c", "k", "a", "g", "e">>,
     <<"p", "r", "i", "v", "a", "t", "e">>,
     <<"p", "r", "o", "t", "e", "c", "t", "e", "d">>,
     <<"p", "u", "b", "l", "i", "c">>, <<"w", "i", "n", "d", "o", "w">>,
     <<"d", "o", "c", "u", "m", "e", "n", "t">>,
     <<"g", "l", "o", "b", "a", "l", "T", "h", "i", "s">>,
     <<"s", "e", "l", "f">>, <<"t", "o", "p">>,
     <<"p", "a", "r", "e", "n", "t">>, <<"f", "r", "a", "m", "e", "s">>,
     <<"l", "o", "c", "a", "t", "i", "o", "n">>,
     <<"h", "i", "s", "t", "o", "r", "y">>, <<"n", "a", "m", "e">>,
     <<"l", "e", "n", "g", "t", "h">>, <<"s", "t", "a", "t", "u", "s">>,
     <<"a", "l", "e", "r", "t">>, <<"c", "o", "n", "f", "i", "r", "m">>,
     <<"p", "r", "o", "m", "p", "t">>, <<"p", "r", "i", "n", "t">>,
     <<"o", "p", "e", "n">>, <<"c", "l", "o", "s", "e">>,
     <<"s", "t", "o", "p">>, <<"f", "o", "c", "u", "s">>,
     <<"b", "l", "u", "r">>, <<"f", "i", "n", "d">>,
     <<"p", "a", "r", "s", "e", "I", "n", "t">>,
     <<"p", "a", "r", "s", "e", "F", "l", "o", "a", "t">>,
     <<"i", "s", "N", "a", "N">>, <<"i", "s", "F", "i", "n", "i", "t", "e">>,
     <<"O", "b", "j", "e", "c", "t">>, <<"A", "r", "r", "a", "y">>,
     <<"S", "t", "r", "i", "n", "g">>, <<"B", "o", "o", "l", "e", "a", "n">>,
     <<"S", "y", "m", "b", "o", "l">>, <<"D", "a", "t", "e">>,
     <<"J", "S", "O", "N">>, <<"R", "e", "g", "E", "x", "p">>,
     <<"F", "u", "n", "c", "t", "i", "o", "n">>, <<"E", "r", "r", "o", "r">>,
     <<"M", "a", "p">>, <<"S", "e", "t">>,
     <<"P", "r", "o", "m", "i", "s", "e">>,
     <<"c", "o", "n", "s", "o", "l", "e">>,
     <<"n", "a", "v", "i", "g", "a", "t", "o", "r">>,
     <<"s", "c", "r", "e", "e", "n">>}

\* the text: the tokens of src, a name outside the model being an "unk" token
RECURSIVE CutAtUnmodelled(_)
CutAtUnmodelled(toks) ==
    IF toks = <<>> THEN <<>>
    ELSE IF Head(toks).t = "id" /\ Head(toks).name \in UnmodelledNames
         THEN <<UnkTok>>
    ELSE <<Head(toks)>> \o CutAtUnmodelled(Tail(toks))

\* the environment of an evaluation: deg = (angleMode === "DEG"), ans = Ans
Env(deg, ans) == [deg |-> deg, ans |-> ans]

\* the value an identifier resolves to: a parameter first, then the host
Resolve(name, env) ==
    CASE name \in {<<"s", "i", "n">>, <<"c", "o", "s">>, <<"t", "a", "n">>, <<"l", "o", "g">>, <<"l", "n">>, <<"s", "q", "r", "t">>} -> Fn(name)
      [] name \in {<<"P", "I">>, <<"E">>} -> Irr(name)
      [] name = <<"A", "n", "s">> -> env.ans
      [] name = <<"M", "a", "t", "h">> -> Obj(name)
      [] name = <<"N", "u", "m", "b", "e", "r">> -> Fn(name)
      [] name = <<"N", "a", "N">> -> NaNV
      [] name = <<"I", "n", "f", "i", "n", "i", "t", "y">> -> InfV(FALSE)
      [] name = <<"u", "n", "d", "e", "f", "i", "n", "e", "d">> -> Undef
      [] OTHER -> Throw                       \* ReferenceError

\* base.name
GetProp(base, name) ==
    IF base.t \in {"throw", "undef"} THEN Throw        \* TypeError on undefined
    ELSE IF base.t = "obj" /\ base.name = <<"M", "a", "t", "h">> /\ name = <<"s", "q", "r", "t">> THEN Fn(name)
    ELSE IF base.t = "obj" /\ base.name = <<"M", "a", "t", "h">> /\ name \in {<<"P", "I">>, <<"E">>} THEN Irr(name)
    ELSE Unk

\* --------------------------------------------------------- math functions
\* a double within rounding error of n/d
Approx(n, d) == [MkNum(n, d) EXCEPT !.ap = TRUE]

IsRatio(x, n, d) == x.t = "num" /\ x.n = n /\ x.d = d

\* degToRad, then Math.sin / Math.cos / Math.tan: the arguments whose result
\* is known are 0 and, in degrees, 30, 45, 60 and 90
Trig(name, x, deg) ==
    IF x.t \in {"nan", "inf", "ninf"} THEN NaNV
    ELSE IF Inexact(x) THEN Unk
    ELSE IF IsZero(x) THEN (IF name = <<"c", "o", "s">> THEN IntV(1) ELSE x)
    ELSE IF deg /\ name = <<"s", "i", "n">> /\ IsRatio(x, 30, 1) THEN Approx(1, 2)
    ELSE IF deg /\ name = <<"s", "i", "n">> /\ IsRatio(x, 90, 1) THEN Approx(1, 1)
    ELSE IF deg /\ name = <<"c", "o", "s">> /\ IsRatio(x, 60, 1) THEN Approx(1, 2)
    ELSE IF deg /\ name = <<"t", "a", "n">> /\ IsRatio(x, 45, 1) THEN Approx(1, 1)
    ELSE Unk

\* Math.log10
Log10(x) ==
    IF x.t \in {"nan", "ninf"} THEN NaNV
    ELSE IF x.t = "inf" THEN x
    ELSE IF Inexact(x) THEN Unk
    ELSE IF IsZero(x) THEN InfV(TRUE)
    ELSE IF x.n < 0 THEN NaNV
    ELSE IF IsRatio(x, 1, 1) THEN IntV(0)
    ELSE IF IsRatio(x, 10, 1) THEN Approx(1, 1)
    ELSE IF IsRatio(x, 100, 1) THEN Approx(2, 1)
    ELSE IF IsRatio(x, 1000, 1) THEN Approx(3, 1)
    ELSE Unk

\* Math.log
Ln(x) ==
    IF x.t \in {"nan", "ninf"} THEN NaNV
    ELSE IF x.t = "inf" THEN x
    ELSE IF x.t = "irr" /\ x.name = <<"E">> THEN Approx(1, 1)
    ELSE IF Inexact(x) THEN Unk
    ELSE IF IsZero(x) THEN InfV(TRUE)
    ELSE IF x.n < 0 THEN NaNV
    ELSE IF IsRatio(x, 1, 1) THEN IntV(0)
    ELSE Unk

IsSquare(n) == \E r \in 1..100 : r * r = n
Root(n) == CHOOSE r \in 1..100 : r * r = n

\* Math.sqrt
Sqrt(x) ==
    IF x.t \in {"nan", "ninf"} THEN NaNV
    ELSE IF x.t = "inf" THEN x
    ELSE IF Inexact(x) THEN Unk
    ELSE IF IsZero(x) THEN x
    ELSE IF x.n < 0 THEN NaNV
    ELSE IF IsSquare(x.n) /\ IsSquare(x.d) THEN MkNum(Root(x.n), Root(x.d))
    ELSE Unk

\* f(a) (hasArg) or f(): the call of the value f
Call(f, hasArg, a, env) ==
    LET x == ToNumber(IF hasArg THEN a ELSE Undef) IN
    IF f.t = "throw" \/ a.t = "throw" THEN Throw
    ELSE IF f.t = "unk" THEN Unk
    ELSE IF f.t # "fn" THEN Throw                            \* TypeError
    ELSE IF x.t = "unk" THEN Unk
    ELSE CASE f.name \in {<<"s", "i", "n">>, <<"c", "o", "s">>, <<"t", "a", "n">>} -> Trig(f.name, x, env.deg)
           [] f.name = <<"l", "o", "g">> -> Log10(x)
           [] f.name = <<"l", "n">> -> Ln(x)
           [] f.name = <<"s", "q", "r", "t">> -> Sqrt(x)
           [] f.name = <<"N", "u", "m", "b", "e", "r">> -> IF hasArg THEN x ELSE IntV(0)

\* ------------------------------------------------------------------ parser
\* The text is parsed and evaluated in one pass: every operand of every
\* operator is evaluated (the character set has no short-circuit operator),
\* so a syntax error and a thrown exception both end in the catch clause.
\* A result: st is "ok", "err" (SyntaxError) or "unk" (outside the model);
\* v the value; i the next token; un: the expression is a unary-operator
\* expression; tgt: it is a simple assignment target.
R(st, v, i, un, tgt) == [st |-> st, v |-> v, i |-> i, un |-> un, tgt |-> tgt]
ErrR == R("err", Undef, 0, FALSE, FALSE)
UnkR == R("unk", Undef, 0, FALSE, FALSE)

EndTok == Tok("end", "", <<>>, Undef)
TokAt(toks, i) == IF i <= Len(toks) THEN toks[i] ELSE EndTok
IsP(tok, ps) == tok.t = "p" /\ tok.p \in ps
\* the token found where another was required
Unexpected(tok) == IF tok.t = "unk" THEN UnkR ELSE ErrR

\* the operators of a level of left-associative binary operators, and the
\* level of their operands
LevelOps(level) == IF level = "additive" THEN {"+", "-"} ELSE {"*", "/", "%"}
Operand(level) == IF level = "additive" THEN "multiplicative" ELSE "exponentiation"

\* Parse(level, toks, l, env): the expression of the grammar level `level`
\* that starts at token l.i.  For the levels "loop:additive",
\* "loop:multiplicative" and "member", l is the result parsed so far, which
\* the level extends by what follows it.
RECURSIVE Parse(_, _, _, _)
Parse(level, toks, l, env) ==
    LET t == TokAt(toks, l.i)
        At(i) == R("ok", Undef, i, FALSE, FALSE)
    IN
    CASE level = "primary" ->
            \* PrimaryExpression: a literal, a name, ( Expression )
            IF t.t = "num" THEN R("ok", t.v, l.i + 1, FALSE, FALSE)
            ELSE IF t.t = "id" THEN R("ok", Resolve(t.name, env), l.i + 1, FALSE, TRUE)
            ELSE IF IsP(t, {"("})
            THEN LET e == Parse("additive", toks, At(l.i + 1), env) IN
                 IF e.st # "ok" THEN e
                 ELSE IF IsP(TokAt(toks, e.i), {")"})
                      THEN R("ok", e.v, e.i + 1, FALSE, e.tgt)
                 ELSE Unexpected(TokAt(toks, e.i))
            ELSE Unexpected(t)
      [] level = "member" ->
            \* MemberExpression / CallExpression: l, then .name or (argument)
            IF IsP(t, {"."})
            THEN LET nm == TokAt(toks, l.i + 1) IN
                 IF nm.t = "id"
                 THEN Parse("member", toks,
                            R("ok", GetProp(l.v, nm.name), l.i + 2, FALSE, TRUE), env)
                 ELSE Unexpected(nm)
            ELSE IF IsP(t, {"("})
            THEN LET hasArg == ~IsP(TokAt(toks, l.i + 1), {")"})
                     a == IF hasArg THEN Parse("additive", toks, At(l.i + 1), env)
                          ELSE At(l.i + 1)
                 IN  IF a.st # "ok" THEN a
                     ELSE IF IsP(TokAt(toks, a.i), {")"})
                          THEN Parse("member", toks,
                                     R("ok", Call(l.v, hasArg, a.v, env), a.i + 1,
                                       FALSE, FALSE), env)
                     ELSE Unexpected(TokAt(toks, a.i))
            ELSE l
      [] level = "postfix" ->
            \* LeftHandSideExpression, then a postfix ++ or --: an early error
            \* unless the operand is a simple assignment target (then the
            \* text is outside the model)
            LET p == Parse("primary", toks, l, env)
                m == IF p.st # "ok" THEN p ELSE Parse("member", toks, p, env)
            IN  IF m.st = "ok" /\ IsP(TokAt(toks, m.i), {"++", "--"})
                THEN (IF m.tgt THEN UnkR ELSE ErrR)
                ELSE m
      [] level = "unary" ->
            \* UnaryExpression: + - and the prefix ++ --
            IF IsP(t, {"+", "-", "++", "--"})
            THEN LET o == Parse("unary", toks, At(l.i + 1), env) IN
                 IF o.st # "ok" THEN o
                 ELSE IF IsP(t, {"++", "--"}) THEN (IF o.tgt THEN UnkR ELSE ErrR)
                 ELSE R("ok", UnaryOp(t.p, o.v), o.i, TRUE, FALSE)
            ELSE Parse("postfix", toks, l, env)
      [] level = "exponentiation" ->
            \* ExponentiationExpression: right associative, and a
            \* unary-operator expression is no base of ** (SyntaxError)
            LET u == Parse("unary", toks, l, env) IN
            IF u.st = "ok" /\ IsP(TokAt(toks, u.i), {"**"})
            THEN IF u.un THEN ErrR
                 ELSE LET r == Parse("exponentiation", toks, At(u.i + 1), env) IN
                      IF r.st # "ok" THEN r
                      ELSE R("ok", BinOp("**", u.v, r.v), r.i, FALSE, FALSE)
            ELSE u
      [] level \in {"additive", "multiplicative"} ->
            \* AdditiveExpression, MultiplicativeExpression: left associative
            LET first == Parse(Operand(level), toks, l, env) IN
            IF first.st # "ok" THEN first
            ELSE Parse(IF level = "additive" THEN "loop:additive"
                       ELSE "loop:multiplicative", toks, first, env)
      [] level \in {"loop:additive", "loop:multiplicative"} ->
            LET lv == IF level = "loop:additive" THEN "additive" ELSE "multiplicative" IN
            IF IsP(t, LevelOps(lv))
            THEN LET r == Parse(Operand(lv), toks, At(l.i + 1), env) IN
                 IF r.st # "ok" THEN r
                 ELSE Parse(level, toks,
                            R("ok", BinOp(t.p, l.v, r.v), r.i, FALSE, FALSE), env)
            ELSE l

ParseAdditive(toks, i, env) ==
    Parse("additive", toks, R("ok", Undef, i, FALSE, FALSE), env)

\* the completion of the wrapper body whose tokens are toks, parsed to r
Completion(toks, r) ==
    IF r.st = "err" THEN Throw
    ELSE IF r.st = "unk" THEN Unk
    ELSE IF r.i <= Len(toks)
         THEN (IF toks[r.i].t = "unk" THEN Unk ELSE Throw)
    ELSE r.v

Run(toks, env) == Completion(toks, ParseAdditive(toks, 1, env))

\* fn(...): the value of  "use strict"; return (expr);  with the parameters
\* bound: Throw when new Function or the call throws
RunFunction(expr, env) ==
    Run(CutAtUnmodelled(Tokens(<<"(">> \o expr \o <<")">>, 1, "other")), env)

\* ----------------------------------------------------------------- results
\* What evaluateExpression returns: k is "num" (the number -1^neg * ip.fr, fr
\* its fraction digits without trailing zeros), "empty" (""), "error"
\* ("Error") or "oom" (the text is outside the model).  "null" is the
\* lastResult of a session without a successful commit.
Result(k, neg, ip, fr) == [k |-> k, neg |-> neg, ip |-> ip, fr |-> fr]
EmptyResult == Result("empty", FALSE, 0, <<>>)
ErrorResult == Result("error", FALSE, 0, <<>>)
OomResult == Result("oom", FALSE, 0, <<>>)
NullResult == Result("null", FALSE, 0, <<>>)

FixedDigits == 10

\* the next k fraction digits of r/d (0 <= r < d), and the remainder left
RECURSIVE FracDigits(_, _, _)
FracDigits(r, d, k) ==
    IF k = 0 THEN [ds |-> <<>>, r |-> r]
    ELSE LET rest == FracDigits((r * 10) % d, d, k - 1) IN
         [ds |-> <<(r * 10) \div d>> \o rest.ds, r |-> rest.r]

\* ds + 1 in the last place: the digits and the carry out of the first place
RECURSIVE Increment(_)
Increment(ds) ==
    IF ds = <<>> THEN [ds |-> <<>>, carry |-> 1]
    ELSE LET n == Len(ds)
             last == ds[n]
         IN  IF last < 9 THEN [ds |-> [ds EXCEPT ![n] = last + 1], carry |-> 0]
             ELSE LET up == Increment(SubSeq(ds, 1, n - 1)) IN
                  [ds |-> up.ds \o <<0>>, carry |-> up.carry]

RECURSIVE StripZeros(_)
StripZeros(ds) ==
    IF ds # <<>> /\ ds[Len(ds)] = 0 THEN StripZeros(SubSeq(ds, 1, Len(ds) - 1))
    ELSE ds

\* Number(result.toFixed(10)) of the num v: the sign is set aside, the
\* magnitude is rounded to 10 fraction digits, a tie to the larger one
ToFixed(v) ==
    LET m == Abs(v.n)
        f == FracDigits(m % v.d, v.d, FixedDigits)
        up == 2 * f.r >= v.d
        inc == IF up THEN Increment(f.ds) ELSE [ds |-> f.ds, carry |-> 0]
    IN  Result("num", v.n < 0, (m \div v.d) + inc.carry, StripZeros(inc.ds))

\* Math.PI and Math.E to 10 fraction digits
ConstantResult(name) ==
    IF name = <<"P", "I">>
    THEN Result("num", FALSE, 3, <<1, 4, 1, 5, 9, 2, 6, 5, 3, 6>>)
    ELSE Result("num", FALSE, 2, <<7, 1, 8, 2, 8, 1, 8, 2, 8, 5>>)

\* the decimal digits of the natural number n
RECURSIVE NatToChars(_)
NatToChars(n) ==
    IF n < 10 THEN <<DigitChar(n)>>
    ELSE NatToChars(n \div 10) \o <<DigitChar(n % 10)>>

DigitsToChars(ds) == [i \in 1..Len(ds) |-> DigitChar(ds[i])]

RECURSIVE LeadingZeros(_)
LeadingZeros(ds) ==
    IF ds # <<>> /\ Head(ds) = 0 THEN 1 + LeadingZeros(Tail(ds)) ELSE 0

\* String(result): Number::toString in base 10.  A magnitude below 1e-6
\* is written with an exponent.
NumberToString(r) ==
    LET z == LeadingZeros(r.fr)
        sig == SubSeq(r.fr, z + 1, Len(r.fr))
        sign == IF r.neg /\ (r.ip # 0 \/ r.fr # <<>>) THEN <<"-">> ELSE <<>>
    IN  IF r.fr = <<>> THEN sign \o NatToChars(r.ip)
        ELSE IF r.ip = 0 /\ z >= 6
        THEN sign \o <<DigitChar(sig[1])>>
             \o (IF Len(sig) > 1 THEN <<".">> \o DigitsToChars(Tail(sig)) ELSE <<>>)
             \o <<"e", "-">> \o NatToChars(z + 1)
        ELSE sign \o NatToChars(r.ip) \o <<".">> \o DigitsToChars(r.fr)

\* the double a stored result holds
ResultValue(r) ==
    LET frac == DigitsToChars(r.fr)
        v == DecimalValue(r.ip, frac)
    IN  IF v.t = "unk" THEN Unk
        ELSE IF r.neg THEN NumNeg(v) ELSE v

\* const Ans = lastResult ?? undefined
AnsValueAbsent(lastResult) ==
    IF lastResult.k = "null" THEN Undef ELSE ResultValue(lastResult)

\* const Ans = lastResult ?? 0
AnsValue(lastResult) ==
    IF lastResult.k = "null" THEN IntV(0) ELSE ResultValue(lastResult)

\* ------------------------------------------------------ evaluateExpression
\* what a call of evaluateExpression did: ret is the value it returned, hook
\* the number of calls of showErrorAnimation() it made
Returned(ret, hook) == [ret |-> ret, hook |-> hook]

\* Validate without the call of showErrorAnimation() in the else branch of
\* the validation
ValidateSilent(result) ==
    CASE result.t = "throw" -> Returned(ErrorResult, 1)
      [] result.t = "unk" -> Returned(OomResult, 0)
      [] result.t = "num" -> Returned(ToFixed(result), 0)
      [] result.t = "irr" -> Returned(ConstantResult(result.name), 0)
      [] OTHER -> Returned(ErrorResult, 0)

\* the catch clause and the validation of what fn(...) gave: a finite number
\* is rounded and returned; a throw, and any other value, calls
\* showErrorAnimation() and returns "Error"
Validate(result) ==
    CASE result.t = "throw" -> Returned(ErrorResult, 1)
      [] result.t = "unk" -> Returned(OomResult, 0)
      [] result.t = "num" -> Returned(ToFixed(result), 0)
      [] result.t = "irr" -> Returned(ConstantResult(result.name), 0)
      [] OTHER -> Returned(ErrorResult, 1)

\* evaluateExpression after its text normalisation
Evaluate(expr, env) ==
    IF expr = <<>> THEN Returned(EmptyResult, 0)
    ELSE Validate(RunFunction(expr, env))

\* evaluateExpression(rawExpr), reading angleMode and lastResult
evaluateExpression(rawExpr, angleMode, lastResult) ==
    Evaluate(Sanitize(rawExpr), Env(angleMode = "DEG", AnsValue(lastResult)))

\* ------------------------------------------------------------------- state
VARIABLES
    expression,   \* let expression: the buffer
    lastResult,   \* let lastResult: NullResult (null) or the last "num" result
    angleMode,    \* let angleMode: "DEG" or "RAD"
    angleLabel,   \* angleToggleBtn.textContent
    history,      \* const history: the entries [expr, res], newest first
    displayMain,  \* displayMain.value, the text of the main display
    errorCalls,   \* calls of showErrorAnimation() made by the latest handler
    lastOp,       \* the latest handler that ran ("init" before the first)
    prev,         \* the buffer it found
    lastArg,      \* its argument: the token appended, the exprToEval of
                  \* "equals", <<>> for the other handlers
    outcome,      \* what evaluateExpression returned to "equals", else
                  \* NullResult
    committed,    \* whether some "equals" so far ended with a number
    ops,          \* the handlers and timer callbacks run so far, counted up
                  \* to MaxOps
    displayError, \* displayMain.classList contains "display-error"
    errorTimers,  \* pending timeouts of showErrorAnimation (200 ms)
    flashed,      \* the buttons whose classList contains "btn-flash"
    flashTimers   \* the buttons of the pending timeouts of flashButton
                  \* (90 ms), in the order they were set

vars == <<expression, lastResult, angleMode, angleLabel, history, displayMain,
          errorCalls, lastOp, prev, lastArg, outcome, committed, ops,
          displayError, errorTimers, flashed, flashTimers>>

\* the number of handlers and timer callbacks a session of the main
\* specification runs
MaxOps == 4

Counted == ops' = IF ops < MaxOps THEN ops + 1 ELSE ops

\* the model variables that only record what the latest handler did
Recorded(op, arg) ==
    /\ Counted
    /\ lastOp' = op
    /\ prev' = expression
    /\ lastArg' = arg
    /\ errorCalls' = 0
    /\ outcome' = NullResult
    /\ UNCHANGED committed

\* showErrorAnimation() called calls times by one handler: each call adds the
\* class to the display and sets a timeout that removes it
showErrorAnimation(calls) ==
    /\ displayError' = (displayError \/ calls > 0)
    /\ errorTimers' = errorTimers + calls

\* matchBtn when no button carries the key: find() returns undefined
NoButton == <<>>

\* flashButton(btn)
flashButton(btn) ==
    IF btn = NoButton THEN UNCHANGED <<flashed, flashTimers>>
    ELSE /\ flashed' = flashed \cup {btn}
         /\ flashTimers' = Append(flashTimers, btn)

\* the data-value of the keypad buttons that append: the digits, the
\* operators and the parentheses
ButtonValues == {"0", "1", "2", "3", "4", "5", "6", "7", "8", "9",
                 "+", "-", "*", "/", "^", "(", ")"}

\* the button the listener of a handler flashes: the keypad button clicked,
\* or the button handleKeyDown finds for the key; the listeners of the
\* history list, of the clear-history button and the typing into the display
\* flash none
ButtonOf(op, arg) ==
    IF op \in {"select", "clear-history", "overwrite"} THEN NoButton
    ELSE IF op = "append"
         THEN IF Len(arg) = 1 /\ arg[1] \in ButtonValues THEN arg ELSE NoButton
         ELSE <<op>>

\* a handler that evaluates nothing, run by its listener
Observed(op, arg) ==
    /\ Recorded(op, arg)
    /\ showErrorAnimation(0)
    /\ flashButton(ButtonOf(op, arg))

HistoryLimit == 20

\* ---------------------------------------------------------------- handlers
\* displayMain.value = expression === "" ? "0" : expression
syncDisplay(expr) == IF expr = <<>> THEN <<"0">> ELSE expr

\* const operators = "+-*/^"
Operators == <<"+", "-", "*", "/", "^">>

\* hay.includes(needle)
Includes(hay, needle) ==
    \E i \in 1..(Len(hay) + 1) :
        /\ i + Len(needle) - 1 <= Len(hay)
        /\ SubSeq(hay, i, i + Len(needle) - 1) = needle

\* s.slice(-1) and s.slice(0, -1)
LastChar(s) == IF s = <<>> THEN <<>> ELSE <<s[Len(s)]>>
DropLast(s) == IF s = <<>> THEN <<>> ELSE SubSeq(s, 1, Len(s) - 1)

\* appendToExpression without the replacement of a trailing operator
appendStacking(expr, token) == expr \o token

\* appendToExpression replacing the last character for every operator token,
\* whatever the expression ends with
appendDroppingLast(expr, token) ==
    IF Includes(Operators, token) THEN DropLast(expr) \o token
    ELSE expr \o token

\* the expression appendToExpression(token) leaves
appendToExpression(expr, token) ==
    LET isOp == Includes(Operators, token)
        lastIsOp == Includes(Operators, LastChar(expr))
    IN  IF isOp /\ (expr = <<>> \/ lastIsOp) THEN DropLast(expr) \o token
        ELSE expr \o token

\* addToHistory with the guard !res in place of the finiteness test: the
\* result 0 is not stored
addToHistoryFalsy(hist, expr, res) ==
    IF res.k # "num" \/ (res.ip = 0 /\ res.fr = <<>>) \/ RemoveSpaces(expr) = <<>>
    THEN hist
    ELSE LET h == <<[expr |-> expr, res |-> res]>> \o hist IN
         IF Len(h) > HistoryLimit THEN SubSeq(h, 1, Len(h) - 1) ELSE h

\* addToHistory with history.shift() in place of history.pop()
addToHistoryShift(hist, expr, res) ==
    IF res.k # "num" \/ expr = <<>> \/ RemoveSpaces(expr) = <<>> THEN hist
    ELSE LET h == <<[expr |-> expr, res |-> res]>> \o hist IN
         IF Len(h) > HistoryLimit THEN Tail(h) ELSE h

\* addToHistory with history[0] = {expr, res} in place of history.unshift
addToHistoryOverwriting(hist, expr, res) ==
    IF res.k # "num" \/ expr = <<>> \/ RemoveSpaces(expr) = <<>> THEN hist
    ELSE IF hist = <<>> THEN <<[expr |-> expr, res |-> res]>>
    ELSE <<[expr |-> expr, res |-> res]>> \o Tail(hist)

\* addToHistory that skips a pair equal to the entry at the front
addToHistoryDedup(hist, expr, res) ==
    IF res.k # "num" \/ expr = <<>> \/ RemoveSpaces(expr) = <<>> THEN hist
    ELSE IF hist # <<>> /\ hist[1] = [expr |-> expr, res |-> res] THEN hist
    ELSE LET h == <<[expr |-> expr, res |-> res]>> \o hist IN
         IF Len(h) > HistoryLimit THEN SubSeq(h, 1, Len(h) - 1) ELSE h

\* the history addToHistory(expr, res) leaves
addToHistory(hist, expr, res) ==
    IF res.k # "num" \/ expr = <<>> \/ RemoveSpaces(expr) = <<>> THEN hist
    ELSE LET h == <<[expr |-> expr, res |-> res]>> \o hist IN
         IF Len(h) > HistoryLimit THEN SubSeq(h, 1, Len(h) - 1) ELSE h

\* a handler that leaves the session state alone and does not sync
NoEffect ==
    UNCHANGED <<expression, lastResult, angleMode, angleLabel, history,
                displayMain>>

\* a handler whose only effect is on the buffer, followed by syncDisplay()
SetExpression(expr) ==
    /\ expression' = expr
    /\ displayMain' = syncDisplay(expr)
    /\ UNCHANGED <<lastResult, angleMode, angleLabel, history>>

\* handleKeypadClick / handleKeyDown with a value: appendToExpression(value)
AppendToken(token) ==
    /\ SetExpression(appendToExpression(expression, token))
    /\ Observed("append", token)

\* handleAction("clear"): clearExpression()
Clear ==
    /\ SetExpression(<<>>)
    /\ Observed("clear", <<>>)

\* deleteLastChar() that removes the whole buffer
DeleteAll ==
    /\ SetExpression(<<>>)
    /\ Observed("delete", <<>>)

\* handleAction("delete"): deleteLastChar()
Delete ==
    /\ SetExpression(DropLast(expression))
    /\ Observed("delete", <<>>)

FunctionNames ==
    {<<"s", "i", "n">>, <<"c", "o", "s">>, <<"t", "a", "n">>,
     <<"l", "o", "g">>, <<"l", "n">>, <<"s", "q", "r", "t">>}

\* handleFunction(name) for sin, cos, tan, log, ln, sqrt
InsertFunction(name) ==
    /\ SetExpression(expression \o name \o <<"(">>)
    /\ Recorded("function", <<>>)
    /\ showErrorAnimation(0)
    /\ flashButton(name)

\* handleFunction("square") without the parentheses
SquareBare ==
    /\ IF expression = <<>> THEN NoEffect
       ELSE SetExpression(expression \o <<"^", "2">>)
    /\ Observed("square", <<>>)

\* handleFunction("square")
Square ==
    /\ IF expression = <<>> THEN NoEffect
       ELSE SetExpression(<<"(">> \o expression \o <<")", "^", "2">>)
    /\ Observed("square", <<>>)

\* handleFunction("pi") and handleFunction("e")
InsertPi ==
    /\ SetExpression(appendToExpression(expression, <<"P", "I">>))
    /\ Observed("pi", <<>>)

InsertE ==
    /\ SetExpression(appendToExpression(expression, <<"E">>))
    /\ Observed("e", <<>>)

\* handleFunction("ans") testing history.length in place of lastResult
InsertAnsFromHistory ==
    /\ IF history # <<>>
       THEN SetExpression(appendToExpression(expression, <<"A", "n", "s">>))
       ELSE NoEffect
    /\ Observed("ans", <<>>)

\* handleFunction("ans")
InsertAns ==
    /\ IF lastResult.k # "null"
       THEN SetExpression(appendToExpression(expression, <<"A", "n", "s">>))
       ELSE NoEffect
    /\ Observed("ans", <<>>)

\* handleAction("percent")
Percent ==
    /\ SetExpression(appendToExpression(expression, <<"%">>))
    /\ Observed("percent", <<>>)

\* expression.split(/[+\-*/^()]/) and its last part
RECURSIVE LastPart(_)
LastPart(s) ==
    IF s = <<>> \/ s[Len(s)] \in {"+", "-", "*", "/", "^", "(", ")"} THEN <<>>
    ELSE LastPart(DropLast(s)) \o <<s[Len(s)]>>

\* handleAction("dot") looking for "." in the whole expression
DotAnywhere ==
    /\ IF Includes(expression, <<".">>) THEN NoEffect
       ELSE SetExpression(appendToExpression(expression, <<".">>))
    /\ Observed("dot", <<>>)

\* handleAction("dot")
Dot ==
    /\ IF Includes(LastPart(expression), <<".">>) THEN NoEffect
       ELSE SetExpression(appendToExpression(expression, <<".">>))
    /\ Observed("dot", <<>>)

\* handleAction("double-zero")
DoubleZero ==
    /\ SetExpression(appendToExpression(expression,
                        IF expression = <<>> THEN <<"0">> ELSE <<"0", "0">>))
    /\ Observed("double-zero", <<>>)

\* exprToEval without the fallback to the text of the display
ExprToEvalBuffer == expression

\* exprToEval of handleAction("equals")
ExprToEval == IF expression = <<>> THEN displayMain ELSE expression

\* what evaluateExpression(exprToEval) returns in the current state
Evaluation == evaluateExpression(ExprToEval, angleMode, lastResult)

\* case "equals" clearing the buffer when result is "Error" or ""
ClearOnError ==
    /\ expression' = <<>>
    /\ displayMain' = syncDisplay(<<>>)
    /\ UNCHANGED <<lastResult, angleMode, angleLabel, history>>

\* case "equals" when result is "Error" or "": syncDisplay() only
KeepExpression ==
    /\ displayMain' = syncDisplay(expression)
    /\ UNCHANGED <<expression, lastResult, angleMode, angleLabel, history>>

\* case "equals" when result is a number
StoreResult(exprToEval, result) ==
    /\ history' = addToHistory(history, exprToEval, result)
    /\ lastResult' = result
    /\ expression' = NumberToString(result)
    /\ displayMain' = syncDisplay(NumberToString(result))
    /\ UNCHANGED <<angleMode, angleLabel>>

\* the body of case "equals", the call evaluateExpression(exprToEval) having
\* done ev
EqualsBody(exprToEval, ev) ==
    /\ ev.ret.k # "oom"
    /\ IF ev.ret.k \in {"error", "empty"} THEN KeepExpression
       ELSE StoreResult(exprToEval, ev.ret)
    /\ Counted
    /\ lastOp' = "equals"
    /\ prev' = expression
    /\ lastArg' = exprToEval
    /\ errorCalls' = ev.hook
    /\ outcome' = ev.ret
    /\ committed' = (committed \/ ev.ret.k = "num")
    /\ showErrorAnimation(ev.hook)
    /\ flashButton(<<"equals">>)

\* handleAction("equals")
Equals == EqualsBody(ExprToEval, Evaluation)

\* the click handler of history entry i writing the entry's expression
SelectHistoryExpr(i) ==
    /\ i \in 1..Len(history)
    /\ SetExpression(history[i].expr)
    /\ Observed("select", <<>>)

\* the click handler of history entry i
SelectHistory(i) ==
    /\ i \in 1..Len(history)
    /\ SetExpression(NumberToString(history[i].res))
    /\ Observed("select", <<>>)

\* clearHistory()
ClearHistory ==
    /\ history' = <<>>
    /\ UNCHANGED <<expression, lastResult, angleMode, angleLabel, displayMain>>
    /\ Observed("clear-history", <<>>)

\* toggleAngleMode() that can only switch to RAD
ToggleToRad ==
    /\ angleMode' = "RAD"
    /\ angleLabel' = angleMode'
    /\ UNCHANGED <<expression, lastResult, history, displayMain>>
    /\ Observed("toggle-angle", <<>>)

\* toggleAngleMode()
ToggleAngleMode ==
    /\ angleMode' = (IF angleMode = "DEG" THEN "RAD" ELSE "DEG")
    /\ angleLabel' = angleMode'
    /\ UNCHANGED <<expression, lastResult, history, displayMain>>
    /\ Observed("toggle-angle", <<>>)

\* a timeout of showErrorAnimation that also resets the buffer
ErrorTimeoutResetting ==
    /\ errorTimers > 0
    /\ errorTimers' = errorTimers - 1
    /\ displayError' = FALSE
    /\ UNCHANGED <<flashed, flashTimers>>
    /\ SetExpression(<<>>)
    /\ Recorded("error-timeout", <<>>)

\* the timeout of showErrorAnimation:
\* displayMain.classList.remove("display-error")
ErrorTimeout ==
    /\ errorTimers > 0
    /\ errorTimers' = errorTimers - 1
    /\ displayError' = FALSE
    /\ UNCHANGED <<flashed, flashTimers>>
    /\ NoEffect
    /\ Recorded("error-timeout", <<>>)

\* the timeout of flashButton: btn.classList.remove("btn-flash"); the
\* timeouts have one delay, so they run in the order they were set
FlashTimeout ==
    /\ flashTimers # <<>>
    /\ flashTimers' = Tail(flashTimers)
    /\ flashed' = flashed \ {Head(flashTimers)}
    /\ UNCHANGED <<displayError, errorTimers>>
    /\ NoEffect
    /\ Recorded("flash-timeout", <<>>)

\* the user replaces the text of the main display: the text is read only
\* by "equals" with an empty buffer, and every handler that empties the
\* buffer writes the display, so only an empty buffer lets it be seen
OverwriteDisplay(text) ==
    /\ expression = <<>>
    /\ displayMain' = text
    /\ UNCHANGED <<expression, lastResult, angleMode, angleLabel, history>>
    /\ Observed("overwrite", <<>>)

\* ------------------------------------------------------------ the session
\* the keys, function buttons and display texts a session of Spec uses
DigitKeys == {"2", "3"}
OperatorKeys == {"+", "-", "*", "/", "^"}
ParenKeys == {"(", ")"}
Keys == DigitKeys \cup OperatorKeys \cup ParenKeys

\* the values handleKeyDown appends: a key of Keys, and, /\d/.test(key)
\* accepting every key name that holds a digit, a function-row key
KeyTokens == {<<k>> : k \in Keys} \cup {<<"F", "1">>}

RawTexts ==
    {<<" ">>, <<" ", "2">>, <<"1", "/", "0">>, <<"A", "n", "s", "+", "1">>,
     <<"N", "u", "m", "b", "e", "r", "(", "2", ")">>}

\* the text the page gives the angle button before the first toggle: it is
\* set by the markup, which is no part of the script
MarkupLabel == "markup"

\* DOMContentLoaded: clearExpression(); renderHistory()
Init ==
    /\ expression = <<>>
    /\ lastResult = NullResult
    /\ angleMode = "DEG"
    /\ angleLabel = MarkupLabel
    /\ history = <<>>
    /\ displayMain = <<"0">>
    /\ errorCalls = 0
    /\ lastOp = "init"
    /\ prev = <<>>
    /\ lastArg = <<>>
    /\ outcome = NullResult
    /\ committed = FALSE
    /\ ops = 0
    /\ displayError = FALSE
    /\ errorTimers = 0
    /\ flashed = {}
    /\ flashTimers = <<>>

KeyPress == \E token \in KeyTokens : AppendToken(token)
FunctionKey == \E name \in FunctionNames : InsertFunction(name)
Select == \E i \in 1..HistoryLimit : SelectHistory(i)
Overwrite == \E text \in RawTexts : OverwriteDisplay(text)

Budget == ops < MaxOps

Next ==
    \/ Budget /\ KeyPress
    \/ Budget /\ FunctionKey
    \/ Budget /\ Square
    \/ Budget /\ InsertPi
    \/ Budget /\ InsertE
    \/ Budget /\ InsertAns
    \/ Budget /\ Percent
    \/ Budget /\ Dot
    \/ Budget /\ DoubleZero
    \/ Budget /\ Clear
    \/ Budget /\ Delete
    \/ Budget /\ Equals
    \/ Budget /\ Select
    \/ Budget /\ ClearHistory
    \/ Budget /\ ToggleAngleMode
    \/ Budget /\ Overwrite
    \/ Budget /\ ErrorTimeout
    \/ Budget /\ FlashTimeout

\* the user of the sessions below acts when the feedback of the handler
\* before has faded
Faded == errorTimers = 0 /\ flashTimers = <<>>

Spec == Init /\ [][Next]_vars

\* ------------------------------------------------------ the ledger session
\* A session that fills the history: the user types texts of LedgerBuffers
\* only, commits no buffer that is the text of the last result, and never
\* clears.  Its commits alternate between two entries, so that the order of
\* the ledger is visible, and it is not cut by MaxOps.
LedgerBuffers ==
    {<<"2">>, <<"2", "-">>, <<"2", "-", "2">>,
     <<"0">>, <<"0", "+">>, <<"0", "+", "2">>}

LedgerKey ==
    \E token \in KeyTokens :
        /\ appendToExpression(expression, token) \in LedgerBuffers
        /\ AppendToken(token)

LedgerEquals ==
    /\ lastResult.k = "null" \/ expression # NumberToString(lastResult)
    /\ Equals

NextLedger ==
    \/ Faded /\ LedgerKey
    \/ Faded /\ LedgerEquals
    \/ Faded /\ ToggleAngleMode
    \/ ErrorTimeout
    \/ FlashTimeout

SpecLedger == Init /\ [][NextLedger]_vars

\* ------------------------------------------------------ the typing session
\* A session that only edits the buffer: the user types the texts of
\* TypingTexts, squares what is typed, deletes and clears.  It is not cut by
\* MaxOps; the buffers it passes through are the prefixes of TypingBuffers.
TypingTexts ==
    {<<"3", ".", "5", "+", "2", ".">>, <<"2", ".", "(", "3", ".", ")">>,
     <<"-", "3", "*">>}

Prefixes(texts) == UNION {{SubSeq(t, 1, n) : n \in 0..Len(t)} : t \in texts}

TypingBuffers ==
    Prefixes(TypingTexts \cup
             {<<"(">> \o t \o <<")", "^", "2">> : t \in Prefixes(TypingTexts)})

\* the handler leaves a buffer of the session
Typed == expression' \in TypingBuffers

TypingKey ==
    \E k \in Digits \cup OperatorKeys \cup ParenKeys : AppendToken(<<k>>) /\ Typed

NextTyping ==
    \/ Faded /\ TypingKey
    \/ Faded /\ Dot /\ Typed
    \/ Faded /\ Square /\ Typed
    \/ Faded /\ Delete
    \/ Faded /\ Clear
    \/ FlashTimeout

SpecTyping == Init /\ [][NextTyping]_vars

\* --------------------------------------------------- the sanitizer session
\* A session that hands raw texts to evaluateExpression: the display is
\* overwritten once with any text of at most MaxRaw characters of
\* RawAlphabet (a blank, a character the sanitizer removes, a digit, and the
\* characters the rewrites look at), then committed.
MaxRaw == 4

RawAlphabet == {" ", "#", "2", ".", "%", "^", ")"}

RECURSIVE TextsOfLength(_)
TextsOfLength(n) ==
    IF n = 0 THEN {<<>>}
    ELSE {<<c>> \o t : c \in RawAlphabet, t \in TextsOfLength(n - 1)}

RawInputs == UNION {TextsOfLength(n) : n \in 1..MaxRaw}

\* the raw text is written into the display of the fresh session
OverwriteAny == ops = 0 /\ \E text \in RawInputs : OverwriteDisplay(text)

NextSanitize ==
    \/ OverwriteAny
    \/ Faded /\ Equals
    \/ ErrorTimeout
    \/ FlashTimeout

SpecSanitize == Init /\ [][NextSanitize]_vars

\* ------------------------------------------------------ the repeat session
\* A session that commits again and again: the user types a text of
\* RepeatTexts, committing at any point, and goes on committing.  It is not
\* cut by MaxOps, so the commits fill the history with the repeats.
RepeatTexts ==
    {<<"1", "/", "2">>, <<"-", "3">>, <<"2", "^", "3">>, <<"(", "2", ")">>}

RepeatKey ==
    \E k \in Digits \cup OperatorKeys \cup ParenKeys :
        /\ AppendToken(<<k>>)
        /\ expression' \in Prefixes(RepeatTexts)

NextRepeat ==
    \/ Faded /\ RepeatKey
    \/ Faded /\ Equals
    \/ ErrorTimeout
    \/ FlashTimeout

SpecRepeat == Init /\ [][NextRepeat]_vars

\* ------------------------------------------------------------- properties
BinaryOperators == {"+", "-", "*", "/", "^"}

\* text[i..j] is a maximal run of letters of text
IsLetterRun(text, i, j) ==
    /\ i <= j
    /\ \A k \in i..j : text[k] \in Letters
    /\ i = 1 \/ text[i - 1] \notin Letters
    /\ j = Len(text) \/ text[j + 1] \notin Letters

\* text holds a letter sequence other than sin, cos, tan, log, ln, sqrt, PI,
\* E and Ans
ForeignName(text) ==
    \E i, j \in 1..Len(text) :
        IsLetterRun(text, i, j) /\ SubSeq(text, i, j) \notin ClosedTable

\* C1: a commit whose sanitized text holds a letter sequence outside the
\* closed symbol table ends with the error, never with a number.
C1_ClosedSymbolTable ==
    (lastOp = "equals" /\ ForeignName(Sanitize(lastArg))) => outcome.k = "error"

\* C2: a commit whose evaluation gives the error or the empty outcome leaves
\* the buffer, Ans, the angle mode and the ledger as they were.
C2_FailedCommitFrame ==
    [][(lastOp' = "equals" /\ outcome'.k \in {"error", "empty"})
        => UNCHANGED <<expression, lastResult, angleMode, history>>]_vars

C2_Witness ==
    /\ lastOp = "equals" /\ outcome.k = "error"
    /\ expression # <<>> /\ history # <<>> /\ lastResult.k = "num"

\* C3: a commit changes none of Ans, buffer and ledger, or all three
\* together: the pair (evaluated expression, result) goes to the front of
\* the ledger, Ans becomes the result and the buffer its string form.
C3_AtomicCommit ==
    [][lastOp' = "equals" =>
        \/ UNCHANGED <<lastResult, expression, history>>
        \/ /\ outcome'.k = "num"
           /\ history' # <<>>
           /\ history'[1] = [expr |-> lastArg', res |-> outcome']
           /\ Tail(history') = SubSeq(history, 1, Len(history') - 1)
           /\ lastResult' = outcome'
           /\ expression' = NumberToString(outcome')]_vars

C3_Witness ==
    /\ lastOp = "equals" /\ outcome.k = "num"
    /\ Len(history) = 2
    /\ history[1] = [expr |-> lastArg, res |-> outcome]
    /\ lastResult = outcome
    /\ expression = NumberToString(outcome)

\* C4: the buffer never holds two adjacent characters that are both binary
\* operators.
C4_NoAdjacentOperators ==
    \A i \in 1..(Len(expression) - 1) :
        ~(expression[i] \in BinaryOperators /\ expression[i + 1] \in BinaryOperators)

C4_Witness ==
    /\ lastOp = "append" /\ lastArg = <<"^">>
    /\ prev # <<>> /\ prev[Len(prev)] \in BinaryOperators \ {"^"}
    /\ Len(prev) >= 2

\* C5: append(token) replaces the last character by token when token is a
\* binary operator and the buffer is empty or ends in a binary operator, and
\* concatenates token in every other case.
C5_AppendReplacesOperator ==
    [][lastOp' = "append" =>
        LET token == lastArg'
            n == Len(expression)
            tokenIsOperator == Len(token) = 1 /\ token[1] \in BinaryOperators
            endsInOperator == n > 0 /\ expression[n] \in BinaryOperators
        IN  expression' =
                IF tokenIsOperator /\ (n = 0 \/ endsInOperator)
                THEN (IF n = 0 THEN <<>> ELSE SubSeq(expression, 1, n - 1)) \o token
                ELSE expression \o token]_vars

C5_Witness ==
    /\ lastOp = "append" /\ lastArg = <<"-">>
    /\ prev = <<"3", "+">>
    /\ expression = <<"3", "-">>

\* C6: the ledger never holds more than 20 entries; a successful commit puts
\* its entry at index 0, and at 20 entries the one at the tail is evicted,
\* the others keeping their order.
C6_LedgerBound ==
    [][/\ Len(history') <= HistoryLimit
       /\ (lastOp' = "equals" /\ outcome'.k = "num") =>
            history' = <<[expr |-> lastArg', res |-> outcome']>> \o
                       (IF Len(history) = HistoryLimit
                        THEN SubSeq(history, 1, HistoryLimit - 1)
                        ELSE history)]_vars

C6_Witness ==
    /\ lastOp = "equals" /\ outcome.k = "num"
    /\ Len(history) = HistoryLimit
    /\ history[HistoryLimit].expr = <<"0", "+", "2">>

\* C7 as stated: the expression of every entry is a non-empty string without
\* leading or trailing whitespace.
C7_EntriesTrimmed ==
    \A i \in 1..Len(history) :
        LET e == history[i].expr IN
        e # <<>> /\ e[1] \notin Whitespace /\ e[Len(e)] \notin Whitespace

\* C7: every entry has an expression that is not blank and a finite numeric
\* result; an entry appears only at the front, by a successful commit, and
\* then stays as it is, moving towards the tail, until it is evicted or the
\* ledger is cleared.
C7_EntriesImmutable ==
    [][/\ \A i \in 1..Len(history') :
            /\ RemoveSpaces(history'[i].expr) # <<>>
            /\ history'[i].res.k = "num"
       /\ \/ history' = history
          \/ history' = <<>> /\ lastOp' = "clear-history"
          \/ /\ lastOp' = "equals" /\ outcome'.k = "num"
             /\ history' # <<>>
             /\ history'[1] = [expr |-> lastArg', res |-> outcome']
             /\ Len(history') = IF Len(history) = HistoryLimit THEN HistoryLimit
                                ELSE Len(history) + 1
             /\ \A i \in 2..Len(history') : history'[i] = history[i - 1]]_vars

C7_Witness ==
    /\ lastOp = "select"
    /\ Len(history) = 2
    /\ history[2].expr = <<" ", "2">>

\* C8: the error hook is called once by a commit whose evaluation fails, and
\* not at all by a commit that succeeds or gives the empty outcome, nor by
\* any other operation.
C8_ErrorHookOnce ==
    [][errorCalls' = IF lastOp' = "equals" /\ outcome'.k = "error" THEN 1 ELSE 0]_vars

C8_Witness ==
    /\ lastOp = "equals" /\ lastArg = <<"1", "/", "0">>
    /\ outcome.k = "error" /\ errorCalls = 1

\* C9: insertAns leaves the buffer as it is while no commit has succeeded,
\* and appends Ans to it once one has, whatever was cleared since.
C9_InsertAns ==
    [][lastOp' = "ans" =>
        expression' = IF committed THEN expression \o <<"A", "n", "s">>
                      ELSE expression]_vars

C9_Witness ==
    /\ lastOp = "ans" /\ committed
    /\ prev = <<>> /\ history = <<>>
    /\ expression = <<"A", "n", "s">>

\* the result 0
ZeroResult == Result("num", FALSE, 0, <<>>)

\* C10: Ans is absent until a commit succeeds, only a successful commit
\* changes it (to its result), and a commit before any success evaluates its
\* text with Ans = 0.
C10_AnsFrame ==
    [][/\ ~committed => lastResult = NullResult
       /\ lastResult' # lastResult =>
            (lastOp' = "equals" /\ outcome'.k = "num" /\ lastResult' = outcome')
       /\ (lastOp' = "equals" /\ ~committed) =>
            outcome' = evaluateExpression(lastArg', angleMode, ZeroResult).ret]_vars

C10_Witness ==
    /\ lastOp = "equals" /\ lastArg = <<"A", "n", "s", "+", "1">>
    /\ outcome = Result("num", FALSE, 1, <<>>)
    /\ ops = 2

\* C11: selecting a history entry makes the buffer the string form of that
\* entry's stored result and evaluates nothing: the ledger, Ans and the
\* angle mode stay as they were and the error hook is not called.
C11_SelectReplays ==
    [][lastOp' = "select" =>
        /\ \E i \in 1..Len(history) : expression' = NumberToString(history[i].res)
        /\ UNCHANGED <<history, lastResult, angleMode>>
        /\ errorCalls' = 0
        /\ outcome' = NullResult]_vars

C11_Witness ==
    /\ lastOp = "select" /\ prev = <<>>
    /\ Len(history) = 1 /\ history[1].expr = <<"P", "I">>
    /\ expression = NumberToString(history[1].res)
    /\ expression # history[1].expr

\* the characters insertDot splits the buffer on
Separators == {"+", "-", "*", "/", "^", "(", ")"}

\* C12: insertDot appends "." exactly when the part of the buffer after its
\* last separator character holds no "."; otherwise the buffer stays as it
\* is.
C12_InsertDot ==
    [][lastOp' = "dot" =>
        LET n == Len(expression)
            seps == {k \in 1..n : expression[k] \in Separators}
            start == IF seps = {} THEN 1
                     ELSE 1 + CHOOSE k \in seps : \A m \in seps : m <= k
            hasDot == \E k \in start..n : expression[k] = "."
        IN  expression' = IF hasDot THEN expression ELSE expression \o <<".">>]_vars

C12_Witness ==
    /\ lastOp = "dot"
    /\ prev = <<"3", ".", "5", "+", "2">>
    /\ expression = <<"3", ".", "5", "+", "2", ".">>

\* C13: sanitizing the output of the sanitizer returns it unchanged, for
\* every raw text.
C13_SanitizeIdempotent ==
    Sanitize(Sanitize(displayMain)) = Sanitize(displayMain)

C13_Witness ==
    /\ lastOp = "overwrite"
    /\ displayMain = <<" ", "#", "2", "%">>
    /\ Sanitize(displayMain) = <<"(", "2", "/", "1", "0", "0", ")">>

\* the position after the longest numeric literal of the evaluated text
\* (digits with an optional fraction, or "." and digits) that starts at
\* position i of s; i when none starts there
NumericLiteralEnd(s, i) ==
    IF i > Len(s) THEN i
    ELSE IF s[i] \in Digits
    THEN LET j == DigitRunEnd(s, i) IN
         IF j <= Len(s) /\ s[j] = "." THEN DigitRunEnd(s, j + 1) ELSE j
    ELSE IF s[i] = "." /\ i < Len(s) /\ s[i + 1] \in Digits
    THEN DigitRunEnd(s, i + 1)
    ELSE i

\* s from position i on with every numeric literal N that is followed by
\* "%" replaced by (N/100), literal by literal from left to right
RECURSIVE LiteralPercentFrom(_, _)
LiteralPercentFrom(s, i) ==
    IF i > Len(s) THEN <<>>
    ELSE LET e == NumericLiteralEnd(s, i) IN
         IF e = i THEN <<s[i]>> \o LiteralPercentFrom(s, i + 1)
         ELSE IF e <= Len(s) /\ s[e] = "%"
         THEN <<"(">> \o SubSeq(s, i, e - 1) \o <<"/", "1", "0", "0", ")">>
              \o LiteralPercentFrom(s, e + 1)
         ELSE SubSeq(s, i, e - 1) \o LiteralPercentFrom(s, e)

\* C14: the percent rewrite replaces each maximal numeric literal N that is
\* followed by "%" with (N/100), in one pass from left to right, and leaves
\* every other "%" in place.
C14_PercentRewrite ==
    LET s == RewriteCaret(RemoveDisallowed(RemoveSpaces(displayMain))) IN
    RewritePercent(s) = LiteralPercentFrom(s, 1)

\* C15: the angle mode is DEG initially; each toggle switches it to the other
\* of DEG and RAD and shows the new mode as the label of the angle button;
\* no other operation (append, delete, clear, function insertion, commit,
\* history selection, history clear, display overwrite) changes the mode or
\* the label.
C15_AngleMode ==
    /\ angleMode = "DEG"
    /\ [][ /\ angleMode' \in {"DEG", "RAD"}
           /\ lastOp' = "toggle-angle" =>
                 /\ angleMode' # angleMode
                 /\ angleLabel' = angleMode'
           /\ lastOp' # "toggle-angle" =>
                 /\ angleMode' = angleMode
                 /\ angleLabel' = angleLabel ]_vars

\* two toggles after a commit: the mode is back at DEG and the label says so
C15_Witness ==
    /\ lastOp = "toggle-angle"
    /\ angleMode = "DEG"
    /\ angleLabel = "DEG"
    /\ history # <<>>

\* C16: delete on a non-empty buffer removes exactly its last character, so
\* the old buffer is the new one followed by one character; on an empty
\* buffer it leaves the buffer empty; it never changes Ans, the angle mode or
\* the Ledger.
C16_DeleteLast ==
    [][ lastOp' = "delete" =>
           /\ expression # <<>> =>
                 /\ Len(expression') = Len(expression) - 1
                 /\ expression = expression' \o <<expression[Len(expression)]>>
           /\ expression = <<>> => expression' = <<>>
           /\ lastResult' = lastResult
           /\ angleMode' = angleMode
           /\ history' = history ]_vars

\* a delete that shortened a buffer of several characters, with Ans set and
\* an entry in the Ledger
C16_Witness ==
    /\ lastOp = "delete"
    /\ Len(prev) >= 2
    /\ Len(expression) = Len(prev) - 1
    /\ history # <<>>

\* C17: square leaves an empty buffer empty, and replaces a non-empty buffer
\* X by "(" + X + ")^2".
C17_Square ==
    [][ lastOp' = "square" =>
           /\ expression = <<>> => expression' = <<>>
           /\ expression # <<>> =>
                 /\ Len(expression') = Len(expression) + 4
                 /\ expression'[1] = "("
                 /\ SubSeq(expression', 2, Len(expression) + 1) = expression
                 /\ SubSeq(expression', Len(expression) + 2, Len(expression) + 4)
                        = <<")", "^", "2">> ]_vars

\* square applied to a buffer of several characters
C17_Witness ==
    /\ lastOp = "square"
    /\ Len(prev) >= 2
    /\ expression = <<"(">> \o prev \o <<")", "^", "2">>

\* timeouts of the transient feedback are pending
Pending == errorTimers > 0 \/ flashTimers # <<>>

\* C18: the timer callbacks of the error flash and of the button flash,
\* interleaved in any order with user actions, leave the buffer, the text of
\* the display, Ans, the angle mode, its label and the Ledger as they are,
\* and pending callbacks never disable a user action; the session state is
\* therefore the one the user actions alone produce.
C18_FeedbackApart ==
    [][ /\ lastOp' \in {"error-timeout", "flash-timeout"} =>
              UNCHANGED <<expression, displayMain, lastResult, angleMode,
                          angleLabel, history>>
        /\ Pending /\ Budget =>
              /\ ENABLED KeyPress
              /\ ENABLED Delete
              /\ ENABLED Clear
              /\ ENABLED Square
              /\ ENABLED ToggleAngleMode
              /\ ENABLED ClearHistory
              /\ \E ev \in {Evaluation} :
                    ev.ret.k # "oom" => ENABLED EqualsBody(ExprToEval, ev) ]_vars

\* the error flash of a failed commit timed out after a later user action,
\* with button flashes still pending
C18_Witness ==
    /\ lastOp = "error-timeout"
    /\ ~displayError
    /\ \E i \in 1..Len(flashTimers) :
          /\ flashTimers[i] = <<"equals">>
          /\ i < Len(flashTimers)

\* the display shows "0" for an empty buffer
ShowsZero == expression = <<>> => displayMain = <<"0">>

\* C19: the display of an empty buffer shows "0" from the start and after
\* every operation unless the user has overwritten the display; a commit on
\* an empty buffer whose display shows "0" therefore evaluates "0" and
\* succeeds: it pushes the entry ("0", 0) to the front of the Ledger, sets
\* Ans to 0 and sets the buffer to "0".
C19_EmptyCommit ==
    /\ ShowsZero
    /\ [][ /\ (ShowsZero /\ lastOp' # "overwrite") => ShowsZero'
           /\ (lastOp' = "equals" /\ expression = <<>> /\ displayMain = <<"0">>) =>
                 /\ lastArg' = <<"0">>
                 /\ outcome' = ZeroResult
                 /\ errorCalls' = 0
                 /\ Len(history') = IF Len(history) = HistoryLimit
                                    THEN HistoryLimit ELSE Len(history) + 1
                 /\ history'[1] = [expr |-> <<"0">>, res |-> ZeroResult]
                 /\ \A i \in 2..Len(history') : history'[i] = history[i - 1]
                 /\ lastResult' = ZeroResult
                 /\ expression' = <<"0">> ]_vars

\* a commit on a buffer emptied by clear, after an earlier commit
C19_Witness ==
    /\ lastOp = "equals"
    /\ prev = <<>>
    /\ lastArg = <<"0">>
    /\ Len(history) = 2
    /\ history[1] = [expr |-> <<"0">>, res |-> ZeroResult]
    /\ history[2].res # ZeroResult
    /\ expression = <<"0">>

\* C20: a successful commit leaves the string form of its result in the
\* buffer and the result in Ans; a commit issued in that state, with no
\* operation in between (timer callbacks may have run), succeeds too, leaves
\* the buffer and Ans as they are and puts one more entry at the front of the
\* Ledger: its expression is the string form of the previous result and its
\* result is that result; the Ledger keeps its bound of HistoryLimit.
C20_RepeatedCommit ==
    [][ /\ (lastOp' = "equals" /\ outcome'.k = "num") =>
              /\ lastResult' = outcome'
              /\ expression' = NumberToString(outcome')
        /\ (lastOp' = "equals" /\ lastResult.k = "num"
                /\ expression = NumberToString(lastResult)) =>
              /\ outcome' = lastResult
              /\ errorCalls' = 0
              /\ expression' = expression
              /\ lastResult' = lastResult
              /\ Len(history') = IF Len(history) = HistoryLimit
                                 THEN HistoryLimit ELSE Len(history) + 1
              /\ history'[1] = [expr |-> NumberToString(lastResult),
                                res |-> lastResult]
              /\ \A i \in 2..Len(history') : history'[i] = history[i - 1] ]_vars

\* the history is full of repeats of one commit, the entry of the text first
\* typed still at the end
C20_Witness ==
    /\ lastOp = "equals"
    /\ Len(history) = HistoryLimit
    /\ \A i \in 1..(HistoryLimit - 1) : history[i] = history[1]
    /\ history[1].expr = NumberToString(history[1].res)
    /\ history[HistoryLimit].expr = <<"1", "/", "2">>
    /\ history[HistoryLimit].res = history[1].res
====
